---- MODULE Spec2Model ----
(***************************************************************************)
(* State-machine model of the interactive certificate editor               *)
(* (frontend/src/components/CertificateEditor.jsx) as wired to its host    *)
(* form (GeneratePage.handleEditorFinalize).                               *)
(*                                                                         *)
(* CertificateEditor.jsx holds two revisions of the component, one after   *)
(* the other: lines 1-275 (rev = 1) and lines 277-975 (rev = 2).  The      *)
(* variable rev says which one is running; handlers are modelled for both. *)
(*                                                                         *)
(* The session of the signed-in user (frontend/src/hooks/useAuth.js) is    *)
(* the variable auth; its profile fetches are the actions of NextAuth.     *)
(***************************************************************************)
EXTENDS Integers, Sequences, FiniteSets, TLC

\* ------------------------------------------------------------------ bounds
MaxRequests == 2        \* preview requests issued in one editor session
MaxDrags    == 1        \* mousedown events in a session of requests and controls
MaxClicks   == 2        \* mousedown events in a session of selection and styling
MaxDowns    == 4        \* mousedown events in one session
MaxMoves    == 2        \* mousemove events delivered in one session
MaxInputs   == 2        \* inline inputs created in one loaded document
MaxFinalizes == 2       \* finalize requests issued in one session
MaxListeners == 2       \* drag sessions whose listeners are registered at once
MaxProfileCalls == 3    \* top-level calls of fetchUserProfile

\* ----------------------------------------------------------- small helpers
None == << >>
Some(x) == << x >>
IsSome(o) == Len(o) = 1
The(o) == o[1]

Abs(a) == IF a < 0 THEN -a ELSE a

RECURSIVE Gcd(_, _)
Gcd(a, b) == IF b = 0 THEN a ELSE Gcd(b, a % b)

\* JavaScript numbers, kept exact as reduced fractions n/d with d > 0.
Rat(n, d) ==
    LET g == Gcd(Abs(n), Abs(d))
        s == IF d < 0 THEN -1 ELSE 1
    IN  [n |-> (s * n) \div g, d |-> (s * d) \div g]
RInt(k) == [n |-> k, d |-> 1]
RSub(a, b) == Rat(a.n * b.d - b.n * a.d, a.d * b.d)
RDiv(a, b) == Rat(a.n * b.d, a.d * b.n)
RLe(a, b) == a.n * b.d <= b.n * a.d
RMin(a, b) == IF RLe(a, b) THEN a ELSE b
RMax(a, b) == IF RLe(a, b) THEN b ELSE a

\* ------------------------------------------------------- the host's form
Fields == {"student_name", "course_name"}
\* Texts a user types into an inline input, and into a Quick Data field.
Values == {"Jane Roe", "<i>Ann</i>"}
QuickValues == {"Jane Roe"}
\* formData when the editor is opened (GeneratePage useState, then the form).
InitialData ==
    { [student_name |-> s, course_name |-> "AWS"] : s \in {"", "John Doe"} }

\* ------------------------------------------- the rendering service (external)
\* POST /certificate/preview answers with the template's markup, the
\* certificate data filled in and the overrides of the request baked in.
RenderHtml(body) ==
    [filled |-> body.certificate_data,
     baked  |-> [positions |-> body.element_positions, styles |-> body.element_styles]]

\* Failures of certificatesAPI.preview / finalize as request() throws them:
\* a non-2xx answer, an aborted fetch.
RequestErrors ==
    { [name |-> "Error", message |-> "Request failed"],
      [name |-> "AbortError", message |-> "The operation was aborted."] }

\* ------------------------------------------------------ the canvas and scale
certWidth  == 1123
certHeight == 794
padding    == 32
\* Sizes of the preview container the ResizeObserver can report.
ContainerSizes == { [w |-> 1400, h |-> 429], [w |-> 1400, h |-> 1000] }
\* Pointer positions (clientX, clientY) of mouse events.
Points == { [x |-> 100, y |-> 50], [x |-> 200, y |-> 150] }

\* A scale computed from the container's size without the padding.
ComputeScaleOfContainer(size) ==
    RMax(Rat(1, 10), RMin(RMin(Rat(size.w, certWidth), Rat(size.h, certHeight)), RInt(1)))

\* A scale that is not clamped.
ComputeScaleUnclamped(size) ==
    RMin(Rat(size.w - padding, certWidth), Rat(size.h - padding, certHeight))

\* handleResize: the scale for a container of the given size.
ComputeScale(size) ==
    LET availableWidth  == size.w - padding
        availableHeight == size.h - padding
        newScale == RMin(Rat(availableWidth, certWidth), Rat(availableHeight, certHeight))
    IN  RMax(Rat(1, 10), RMin(newScale, RInt(1)))

\* iframeRef.current.getBoundingClientRect(): the canvas is centred in the
\* container (flex, items-center, justify-center) and scaled about its centre.
IframeRect(size, sc) ==
    [x |-> Rat(size.w * sc.d - certWidth * sc.n, 2 * sc.d),
     y |-> Rat(size.h * sc.d - certHeight * sc.n, 2 * sc.d)]

\* ------------------------------------------------- the certificate template
\* The text-capable elements of a rendered snippet, in document order:
\*   1  <p class="student-name" data-field="student_name">{student_name}</p>
\*   2  <div>Awarded for <span ...>{course_name}</span></div>
\*   3  the span inside 2, class="course-name" data-field="course_name"
Nodes == 1..3
NodeParent(n) == IF n = 3 THEN 2 ELSE 0
NodeChildren(n) == { c \in Nodes : NodeParent(c) = n }
NodeField(n) == CASE n = 1 -> "student_name" [] n = 3 -> "course_name" [] OTHER -> ""
NodeClass(n) == CASE n = 1 -> "student-name" [] n = 3 -> "course-name" [] OTHER -> ""
NodeText(n, data) ==
    CASE n = 1 -> data.student_name [] n = 3 -> data.course_name [] OTHER -> "Awarded for "
\* Where the template lays the element out (its bounding box's corner).
NodeOrigin(n) == [x |-> RInt(20 * n), y |-> RInt(10 * n)]

\* Setting innerHTML parses markup: the rendered text of a value.
HtmlText(v) == IF v = "<i>Ann</i>" THEN "Ann" ELSE v
\* String.prototype.trim().length > 0 on the texts of this model.
NonBlank(t) == t \notin {"", " "}

ElementId(k) == "element-" \o ToString(k)

\* offsetWidth x offsetHeight of the template's elements.
NodeSize(n) == IF n = 2 THEN [w |-> 600, h |-> 250] ELSE [w |-> 300, h |-> 40]

\* ------------------------------------------------------------------- state
VARIABLES
    rev,               \* 1: CertificateEditor.jsx:1-275, 2: CertificateEditor.jsx:277-975
    blurOnRemove,      \* does this browser fire blur on a focused element that is removed
    \* GeneratePage
    showEditor, formData, hostLoading, hostError, result,
    \* CertificateEditor (useState)
    previewHtml, loading, error, finalizing, selectedElement,
    elementPositions, elementStyles, scale, editingText, dragOffset, isDragging,
    \* the network
    requests,          \* preview requests in issue order
    previewReq,        \* the request whose html setPreviewHtml received last (0: none)
    finalizeReqs,      \* finalize requests in issue order
    \* the iframe's document
    docLoad,           \* how many times doc.write replaced the document
    nodes, inputs, focus, listeners,
    timers,            \* pending setTimeout(() => setupEditorEvents(doc), 100) callbacks
    \* the user's pointer and the container
    pointer, containerSize, nMoves, nDowns,
    \* useAuth (hooks/useAuth.js)
    auth               \* isAuthenticated, user, loading, pendingFetch and the profile fetches

hostVars   == << showEditor, formData, hostLoading, hostError, result >>
editorVars == << previewHtml, loading, error, finalizing, selectedElement,
                 elementPositions, elementStyles, scale, editingText, dragOffset, isDragging >>
netVars    == << requests, previewReq, finalizeReqs >>
docVars    == << docLoad, nodes, inputs, focus, listeners, timers >>
userVars   == << pointer, containerSize, nMoves, nDowns >>
vars == << rev, blurOnRemove, hostVars, editorVars, netVars, docVars, userVars, auth >>

\* ------------------------------------------------------------ the document
NoStyle == << >>
NoNode ==
    [exists |-> FALSE, tag |-> "", field |-> "", text |-> "", input |-> 0,
     selected |-> FALSE, pos |-> None, style |-> NoStyle, handlers |-> << >>,
     dragging |-> FALSE]

\* injectEditorCapabilities (revision 2): class="..." gets data-editable and
\* data-field attributes; revision 1 writes the snippet as it is.
InjectedTag(r, n) == IF r = 2 THEN NodeClass(n) ELSE ""

\* doc.open(); doc.write(html); doc.close(): the elements of the new document.
BuildDoc(r, html) ==
    [n \in Nodes |->
        [NoNode EXCEPT !.exists = TRUE,
                       !.tag = InjectedTag(r, n),
                       !.field = NodeField(n),
                       !.text = NodeText(n, html.filled)]]

\* el.children.length
ChildCount(ns, n) ==
    Cardinality({ c \in NodeChildren(n) : ns[c].exists })
        + (IF ns[n].input # 0 THEN 1 ELSE 0)

RECURSIVE TextContent(_, _)
\* el.textContent: the element's own text and its descendants' text
TextContent(ns, n) ==
    LET kids == { c \in NodeChildren(n) : ns[c].exists }
        RECURSIVE Cat(_)
        Cat(S) == IF S = {} THEN ""
                  ELSE LET c == CHOOSE k \in S : \A o \in S : k <= o
                       IN  TextContent(ns, c) \o Cat(S \ {c})
    IN  ns[n].text \o Cat(kids)

\* Too large to be a text element (revision 2 only).
TooLarge(r, n) == r = 2 /\ NodeSize(n).w > 500 /\ NodeSize(n).h > 200

\* setupEditorEvents, the tagging loop: is the element marked editable
Qualifies(r, ns, n) ==
    /\ ns[n].exists
    /\ ns[n].tag = ""
    /\ ~ (ChildCount(ns, n) > 3)
    /\ ~ TooLarge(r, n)
    /\ \/ NonBlank(ns[n].text)
       \/ ChildCount(ns, n) = 0 /\ NonBlank(TextContent(ns, n))

RECURSIVE TagFrom(_, _, _, _)
\* textElements.forEach from element n on, with the running counter
TagFrom(r, ns, n, counter) ==
    IF n \notin Nodes THEN ns
    ELSE IF Qualifies(r, ns, n)
         THEN TagFrom(r, [ns EXCEPT ![n].tag = ElementId(counter)], n + 1, counter + 1)
         ELSE TagFrom(r, ns, n + 1, counter)

TagElements(r, ns) == TagFrom(r, ns, 1, 1)

\* doc.querySelectorAll('[data-editable]').forEach(el => el.addEventListener...)
AttachHandlers(ns, env) ==
    [n \in Nodes |->
        IF ns[n].exists /\ ns[n].tag # ""
        THEN [ns[n] EXCEPT !.handlers = Append(@, env)]
        ELSE ns[n]]

\* --------------------------------------------------- the handlers' world
\* What the handlers attached to the document read and write, as one record.
World ==
    [nodes |-> nodes, inputs |-> inputs, focus |-> focus, listeners |-> listeners,
     formData |-> formData, selectedElement |-> selectedElement,
     elementPositions |-> elementPositions, editingText |-> editingText,
     dragOffset |-> dragOffset, isDragging |-> isDragging]

\* The closure of the render in which the [previewHtml] effect ran: the values
\* the handlers attached by its setupEditorEvents see.
Closure ==
    [certificateData |-> formData, scale |-> scale,
     editingText |-> editingText, dragOffset |-> dragOffset]

\* setElementPositions(p => ({ ...p, [id]: { x, y } })): an object keeps a
\* key's place, a new key goes last.
PutPosition(ps, id, x, y) ==
    IF \E k \in 1..Len(ps) : ps[k].element_id = id
    THEN [k \in 1..Len(ps) |->
            IF ps[k].element_id = id THEN [element_id |-> id, x |-> x, y |-> y] ELSE ps[k]]
    ELSE Append(ps, [element_id |-> id, x |-> x, y |-> y])

\* A style update that forgets the element's other properties.
PutStyleAlone(ss, id, prop, val) ==
    IF \E k \in 1..Len(ss) : ss[k].element_id = id
    THEN [k \in 1..Len(ss) |->
            IF ss[k].element_id = id
            THEN [element_id |-> id, style |-> (prop :> val)]
            ELSE ss[k]]
    ELSE Append(ss, [element_id |-> id, style |-> (prop :> val)])

\* setElementStyles(p => ({ ...p, [id]: { ...p[id], [prop]: val } }))
PutStyle(ss, id, prop, val) ==
    IF \E k \in 1..Len(ss) : ss[k].element_id = id
    THEN [k \in 1..Len(ss) |->
            IF ss[k].element_id = id
            THEN [element_id |-> id, style |-> (prop :> val) @@ ss[k].style]
            ELSE ss[k]]
    ELSE Append(ss, [element_id |-> id, style |-> (prop :> val)])

\* onDataChange({ ...certificateData, [field]: val }) = GeneratePage.setFormData
OnDataChange(W, data, field, val) ==
    [W EXCEPT !.formData = [data EXCEPT ![field] = val]]

RECURSIVE FinishEdit(_, _)
RECURSIVE SetInnerHTML(_, _, _)

\* The inputs that are children of n or of an element inside n.
InputsUnder(W, n) ==
    { W.nodes[m].input : m \in { m \in {n} \cup NodeChildren(n) : W.nodes[m].input # 0 } }

\* Elements leave the document.  A focused input among them loses focus; a
\* browser that fires blur for it runs the input's blur listener first.
RemoveInputs(W, gone) ==
    LET f  == W.focus
        W1 == IF f \in gone
              THEN IF blurOnRemove
                   THEN FinishEdit([W EXCEPT !.focus = 0], f)
                   ELSE [W EXCEPT !.focus = 0]
              ELSE W
    IN  [W1 EXCEPT !.inputs =
            [i \in 1..Len(@) |-> IF i \in gone THEN [@[i] EXCEPT !.inDom = FALSE] ELSE @[i]]]

\* el.innerHTML = content, content = [text, kids]: the old children go, the
\* markup's elements are created anew (no listeners on them).
SetInnerHTML(W, n, content) ==
    LET W1 == RemoveInputs(W, InputsUnder(W, n))
    IN  [W1 EXCEPT !.nodes =
            [m \in Nodes |->
                IF m = n THEN [@[m] EXCEPT !.text = content.text, !.input = 0]
                ELSE IF m \in NodeChildren(n)
                     THEN [@[m] EXCEPT !.exists = m \in content.kids,
                                       !.input = 0, !.handlers = << >>]
                     ELSE @[m]]]

\* input.onblur (revision 1, lines 96-99); finishEdit (revision 2, lines 547-559)
FinishEdit(W, i) ==
    LET inp == W.inputs[i]
        val == inp.value
        W1  == SetInnerHTML(W, inp.node, [text |-> HtmlText(val), kids |-> {}])
        W2  == IF inp.field # ""
               THEN OnDataChange(W1, inp.env.certificateData, inp.field, val)
               ELSE W1
        W3  == [W2 EXCEPT !.inputs[i].commits = @ + 1,
                          !.inputs[i].calls = IF inp.field # "" THEN @ + 1 ELSE @]
    IN  IF rev = 2 THEN [W3 EXCEPT !.editingText = None] ELSE W3

\* input.focus(): the element that had the focus gets a blur event.
FocusInput(W, i) ==
    LET f  == W.focus
        W1 == IF f # 0 /\ f # i THEN FinishEdit([W EXCEPT !.focus = 0], f) ELSE W
    IN  [W1 EXCEPT !.focus = i]

\* A click listener that leaves the earlier highlight in place.
ClickHandlerKeeps(W, n) ==
    [W EXCEPT !.nodes[n].selected = TRUE,
              !.selectedElement =
                  Some([id |-> W.nodes[n].tag, field |-> W.nodes[n].field,
                        element |-> << docLoad, n >>])]

\* el.addEventListener('click', ...): lines 80-85 and 506-519
ClickHandler(W, n) ==
    LET cleared == [m \in Nodes |->
                      IF W.nodes[m].exists THEN [W.nodes[m] EXCEPT !.selected = FALSE]
                      ELSE W.nodes[m]]
    IN  [W EXCEPT !.nodes = [cleared EXCEPT ![n].selected = TRUE],
                  !.selectedElement =
                      Some([id |-> W.nodes[n].tag, field |-> W.nodes[n].field,
                            element |-> << docLoad, n >>])]

\* el.addEventListener('dblclick', ...): lines 87-100 and 522-570
DblClickHandler(W, n, env) ==
    LET el == W.nodes[n]
        k  == Len(W.inputs) + 1
        original == [text |-> el.text,
                     kids |-> { c \in NodeChildren(n) : W.nodes[c].exists }]
        input == [node |-> n, value |-> TextContent(W.nodes, n), original |-> original,
                  field |-> el.field, env |-> env, inDom |-> TRUE,
                  commits |-> 0, calls |-> 0, escaped |-> FALSE,
                  \* an earlier input was still open when this one took its text
                  overOpen |-> \E j \in 1..Len(W.inputs) : W.inputs[j].inDom]
        W0 == IF rev = 2
              THEN [W EXCEPT !.editingText =
                       Some([id |-> el.tag, field |-> el.field, element |-> << docLoad, n >>])]
              ELSE W
        W1 == SetInnerHTML(W0, n, [text |-> "", kids |-> {}])
        W2 == [W1 EXCEPT !.inputs = Append(@, input), !.nodes[n].input = k]
    IN  FocusInput(W2, k)

\* An inline edit is open: an input is in the document, not yet committed.
EditOpen(W) == \E j \in 1..Len(W.inputs) : W.inputs[j].inDom

\* el.getBoundingClientRect(): where the element is now
NodeRect(W, n) == IF IsSome(W.nodes[n].pos) THEN The(W.nodes[n].pos) ELSE NodeOrigin(n)

\* el.addEventListener('mousedown', ...): lines 102-117 and 573-611
MouseDownHandler(W, n, env, pt) ==
    LET rect == NodeRect(W, n)
        dx == RSub(RInt(pt.x), rect.x)
        dy == RSub(RInt(pt.y), rect.y)
    IN  IF rev = 1
        THEN [W EXCEPT !.listeners =
                 Append(@, [node |-> n, scale |-> env.scale, editOpen |-> EditOpen(W),
                            offset |-> [x |-> RDiv(dx, env.scale), y |-> RDiv(dy, env.scale)],
                            captured |-> [x |-> RDiv(dx, scale), y |-> RDiv(dy, scale)]])]
        ELSE IF IsSome(env.editingText) THEN W
        ELSE [W EXCEPT !.dragOffset = [x |-> dx, y |-> dy],
                       !.isDragging = TRUE,
                       !.nodes[n].dragging = TRUE,
                       !.listeners =
                           Append(@, [node |-> n, scale |-> RInt(1), editOpen |-> EditOpen(W),
                                      offset |-> env.dragOffset,
                                      captured |-> [x |-> RDiv(dx, scale), y |-> RDiv(dy, scale)]])]

\* The place of the iframe in the page when a pointer event is handled.
IframeOrigin ==
    IF rev = 1 THEN IframeRect(containerSize, scale) ELSE [x |-> RInt(0), y |-> RInt(0)]

\* move / handleMouseMove of one drag session: lines 108-114 and 584-600
MoveListener(W, l, pt) ==
    LET iRect == IframeOrigin
        x == RSub(RDiv(RSub(RInt(pt.x), iRect.x), l.scale), l.offset.x)
        y == RSub(RDiv(RSub(RInt(pt.y), iRect.y), l.scale), l.offset.y)
    IN  [W EXCEPT !.nodes[l.node].pos = Some([x |-> x, y |-> y]),
                  !.elementPositions = PutPosition(@, W.nodes[l.node].tag, x, y)]

\* up / handleMouseUp of one drag session: lines 115 and 602-607
UpListener(W, l) ==
    IF rev = 2
    THEN [W EXCEPT !.isDragging = FALSE, !.nodes[l.node].dragging = FALSE]
    ELSE W

\* ------------------------------------------------------------------- Init
\* useState initial values of CertificateEditor
InitialEditor ==
    /\ previewHtml = None
    /\ error = ""
    /\ finalizing = FALSE
    /\ selectedElement = None
    /\ elementPositions = << >>
    /\ elementStyles = << >>
    /\ editingText = None
    /\ dragOffset = [x |-> RInt(0), y |-> RInt(0)]
    /\ isDragging = FALSE

\* A serializer that sends no position.
SerializeNoPositions(ps) == << >>

\* A serializer that sends only the entries no finalize request carried yet.
SerializePositionsDelta(ps) ==
    LET all == [k \in 1..Len(ps) |-> [element_id |-> ps[k].element_id, x |-> ps[k].x, y |-> ps[k].y]]
    IN  SelectSeq(all, LAMBDA e : \A k \in 1..Len(finalizeReqs) :
                     \A j \in 1..Len(finalizeReqs[k].body.element_positions) :
                        finalizeReqs[k].body.element_positions[j] # e)

\* Object.entries(elementPositions).map(([id, p]) => ({ element_id: id, ...p }))
SerializePositions(ps) ==
    [k \in 1..Len(ps) |-> [element_id |-> ps[k].element_id, x |-> ps[k].x, y |-> ps[k].y]]

\* Object.entries(elementStyles).map(([id, s]) => ({ element_id: id, ...s })):
\* the properties of the style spread next to element_id (a property of the
\* spread object wins over the key written before it).
SerializeStyles(ss) ==
    [k \in 1..Len(ss) |-> ss[k].style @@ [element_id |-> ss[k].element_id]]

\* The request body of certificatesAPI.preview (lines 29-34, api.js preview)
PreviewBody(data, positions, styles) ==
    [certificate_data |-> data, element_positions |-> positions, element_styles |-> styles]

\* useState / useRef initial values of useAuth: lines 5-8
InitialAuth ==
    [isAuthenticated |-> FALSE, user |-> FALSE, loading |-> TRUE,
     pendingFetch |-> 0, fetches |-> << >>, nCalls |-> 0]

\* The editor has just been opened by handlePreviewEdit and mounted: its mount
\* effects have issued the first preview request and measured the container.
Init ==
    /\ rev \in {1, 2}
    /\ blurOnRemove \in BOOLEAN
    /\ showEditor = TRUE
    /\ formData \in InitialData
    /\ hostLoading = FALSE
    /\ hostError = ""
    /\ result = None
    /\ InitialEditor
    /\ loading = TRUE
    /\ containerSize \in ContainerSizes
    /\ scale = IF rev = 1 THEN ComputeScale(containerSize) ELSE RInt(1)
    /\ requests = << [status |-> "pending", body |-> PreviewBody(formData, << >>, << >>)] >>
    /\ previewReq = 0
    /\ finalizeReqs = << >>
    /\ docLoad = 0
    /\ nodes = [n \in Nodes |-> NoNode]
    /\ inputs = << >>
    /\ focus = 0
    /\ listeners = << >>
    /\ timers = << >>
    /\ pointer = [down |-> FALSE, target |-> [kind |-> "none", id |-> 0], lastClick |-> None,
                  at |-> [x |-> 0, y |-> 0]]
    /\ nMoves = 0
    /\ nDowns = 0
    /\ auth = InitialAuth

\* No input of the iframe has the focus and no button is held: the user can
\* operate the controls around the canvas.
AtControls == showEditor /\ focus = 0 /\ ~ pointer.down

\* ------------------------------------------------------- preview requests
\* fetchPreview up to its await (Refresh, Apply Changes): lines 25-34, 321-346
FetchPreview ==
    /\ AtControls
    /\ Len(requests) < MaxRequests
    /\ loading' = TRUE
    /\ error' = ""
    /\ requests' = Append(requests,
          [status |-> "pending",
           body |-> PreviewBody(formData, SerializePositions(elementPositions),
                                SerializeStyles(elementStyles))])
    /\ UNCHANGED << auth, rev, blurOnRemove, hostVars, previewHtml, finalizing, selectedElement,
                    elementPositions, elementStyles, scale, editingText, dragOffset,
                    isDragging, previewReq, finalizeReqs, docVars, userVars >>

\* useEffect [previewHtml]: doc.open(); doc.write(previewHtml); doc.close();
\* setTimeout(() => setupEditorEvents(doc), 100)   (lines 121-126, 367-383)
LoadDocument(html) ==
    /\ docLoad' = docLoad + 1
    /\ nodes' = BuildDoc(rev, html)
    /\ inputs' = << >>
    /\ focus' = 0
    /\ listeners' = << >>
    /\ timers' = Append(timers, Closure)
    /\ pointer' = [pointer EXCEPT !.target = [kind |-> "none", id |-> 0], !.lastClick = None]

\* fetchPreview after its await, the request answered: lines 35, 38-40
PreviewResolve(i) ==
    LET html == RenderHtml(requests[i].body)
    IN  /\ showEditor
        /\ requests[i].status = "pending"
        /\ requests' = [requests EXCEPT ![i].status = "ok"]
        /\ previewHtml' = Some(html)
        /\ previewReq' = i
        /\ loading' = FALSE
        /\ IF previewHtml # Some(html)
           THEN LoadDocument(html)
           ELSE UNCHANGED << docVars, pointer >>
        /\ UNCHANGED << auth, rev, blurOnRemove, hostVars, error, finalizing, selectedElement,
                        elementPositions, elementStyles, scale, editingText, dragOffset,
                        isDragging, finalizeReqs, containerSize, nMoves, nDowns >>

\* A catch block that swallows every error.
PreviewCatchSilent(r, err, old) == old

\* What the catch block of fetchPreview does with the error: line 37, line 355
PreviewCatch(r, err, old) ==
    IF r = 1 THEN (IF err.name # "AbortError" THEN err.message ELSE old)
    ELSE err.message

\* A failure handler that also blanks the preview and drops the overrides.
PreviewRejectBlanks(i, err) ==
    /\ showEditor
    /\ requests[i].status = "pending"
    /\ requests' = [requests EXCEPT
          ![i].status = IF err.name = "AbortError" THEN "aborted" ELSE "failed"]
    /\ error' = err.message
    /\ loading' = FALSE
    /\ previewHtml' = None
    /\ elementPositions' = << >>
    /\ elementStyles' = << >>
    /\ UNCHANGED << auth, rev, blurOnRemove, hostVars, finalizing, selectedElement,
                    scale, editingText, dragOffset,
                    isDragging, previewReq, finalizeReqs, docVars, userVars >>

\* fetchPreview after its await, the request failed: lines 36-40, 354-358
PreviewReject(i, err) ==
    /\ showEditor
    /\ requests[i].status = "pending"
    /\ requests' = [requests EXCEPT
          ![i].status = IF err.name = "AbortError" THEN "aborted" ELSE "failed"]
    /\ error' = PreviewCatch(rev, err, error)
    /\ loading' = FALSE
    /\ UNCHANGED << auth, rev, blurOnRemove, hostVars, previewHtml, finalizing, selectedElement,
                    elementPositions, elementStyles, scale, editingText, dragOffset,
                    isDragging, previewReq, finalizeReqs, docVars, userVars >>

\* The timer set by the [previewHtml] effect fires: setupEditorEvents(doc)
SetupEditorEvents ==
    /\ showEditor
    /\ timers # << >>
    /\ nodes' = AttachHandlers(TagElements(rev, nodes), Head(timers))
    /\ timers' = Tail(timers)
    /\ UNCHANGED << auth, rev, blurOnRemove, hostVars, editorVars, netVars,
                    docLoad, inputs, focus, listeners, userVars >>

\* ------------------------------------------------------------ finalization
\* The Finalize button is enabled: disabled={finalizing} (line 166),
\* disabled={loading} (line 805)
CanFinalize == IF rev = 1 THEN ~ finalizing ELSE ~ loading

\* The editor is unmounted: its state is gone (a later mount starts from the
\* useState initial values).
Unmount ==
    /\ showEditor' = FALSE
    /\ previewHtml' = None
    /\ loading' = TRUE
    /\ error' = ""
    /\ finalizing' = FALSE
    /\ selectedElement' = None
    /\ elementPositions' = << >>
    /\ elementStyles' = << >>
    /\ editingText' = None
    /\ dragOffset' = [x |-> RInt(0), y |-> RInt(0)]
    /\ isDragging' = FALSE

\* handleFinalize up to its await, with GeneratePage.handleEditorFinalize up to
\* its await: lines 134-142 (634-648) and part_009 lines 226-230
HandleFinalize ==
    /\ AtControls
    /\ CanFinalize
    /\ Len(finalizeReqs) < MaxFinalizes
    /\ IF rev = 1
       THEN finalizing' = TRUE /\ error' = "" /\ UNCHANGED loading
       ELSE loading' = TRUE /\ UNCHANGED << finalizing, error >>
    /\ hostLoading' = TRUE
    /\ hostError' = ""
    /\ finalizeReqs' = Append(finalizeReqs,
          [status |-> "pending",
           body |-> [certificate_data |-> formData,
                     element_positions |-> SerializePositions(elementPositions),
                     element_styles |-> SerializeStyles(elementStyles)],
           \* the override state of the render whose handleFinalize ran
           issuedWith |-> [positions |-> elementPositions, styles |-> elementStyles]])
    /\ UNCHANGED << auth, rev, blurOnRemove, showEditor, formData, result, previewHtml,
                    selectedElement, elementPositions, elementStyles, scale, editingText,
                    dragOffset, isDragging, requests, previewReq, docVars, userVars >>

\* handleEditorFinalize, the request answered: part_009 lines 231-233, 236-238
FinalizeResolve(k) ==
    /\ finalizeReqs[k].status = "pending"
    /\ finalizeReqs' = [finalizeReqs EXCEPT ![k].status = "ok"]
    /\ result' = Some(k)
    /\ hostLoading' = FALSE
    /\ Unmount
    /\ UNCHANGED << auth, rev, blurOnRemove, formData, hostError, scale, requests, previewReq,
                    docVars, userVars >>

\* Does the promise of onFinalize reject when the finalize request failed:
\* handleEditorFinalize catches the error and returns (part_009 lines 234-236).
OnFinalizeRejects(failed) == FALSE

\* A host that closes the editor when the finalize request failed.
FinalizeRejectCloses(k, err) ==
    /\ finalizeReqs[k].status = "pending"
    /\ finalizeReqs' = [finalizeReqs EXCEPT ![k].status = "failed"]
    /\ hostError' = err.message
    /\ hostLoading' = FALSE
    /\ Unmount
    /\ UNCHANGED << auth, rev, blurOnRemove, formData, result, scale, requests, previewReq,
                    docVars, userVars >>

\* handleEditorFinalize, the request failed (part_009 lines 234-238), then
\* handleFinalize after its await: lines 143-146 and 649-653
FinalizeReject(k, err) ==
    /\ finalizeReqs[k].status = "pending"
    /\ finalizeReqs' = [finalizeReqs EXCEPT ![k].status = "failed"]
    /\ hostError' = err.message
    /\ hostLoading' = FALSE
    /\ IF ~ showEditor
       THEN UNCHANGED << error, finalizing, loading >>
       ELSE IF rev = 1
            THEN IF OnFinalizeRejects(TRUE)
                 THEN error' = err.message /\ finalizing' = FALSE /\ UNCHANGED loading
                 ELSE UNCHANGED << error, finalizing, loading >>
            ELSE /\ error' = IF OnFinalizeRejects(TRUE) THEN err.message ELSE error
                 /\ loading' = FALSE
                 /\ UNCHANGED finalizing
    /\ UNCHANGED << auth, rev, blurOnRemove, showEditor, formData, result, previewHtml,
                    selectedElement, elementPositions, elementStyles, scale, editingText,
                    dragOffset, isDragging, requests, previewReq, docVars, userVars >>

\* onBack = () => setShowEditor(false): part_009 line 280
Back ==
    /\ AtControls
    /\ Unmount
    /\ UNCHANGED << auth, rev, blurOnRemove, formData, hostLoading, hostError, result, scale,
                    netVars, docVars, userVars >>

\* ------------------------------------------------- the controls of the editor
\* The dismiss button of the error banner: line 181 (revision 2 has none)
DismissError ==
    /\ AtControls
    /\ rev = 1
    /\ error # ""
    /\ error' = ""
    /\ UNCHANGED << auth, rev, blurOnRemove, hostVars, previewHtml, loading, finalizing,
                    selectedElement, elementPositions, elementStyles, scale, editingText,
                    dragOffset, isDragging, netVars, docVars, userVars >>

\* Quick Data inputs: onDataChange({ ...certificateData, [field]: value })
\* (lines 266-267, 955, 963)
QuickData(field, v) ==
    /\ AtControls
    /\ formData[field] # v
    /\ formData' = [formData EXCEPT ![field] = v]
    /\ UNCHANGED << auth, rev, blurOnRemove, showEditor, hostLoading, hostError, result,
                    editorVars, netVars, docVars, userVars >>

\* A resize handler that also drops the stored overrides.
HandleResizeDrops(size) ==
    /\ showEditor
    /\ rev = 1
    /\ size # containerSize
    /\ containerSize' = size
    /\ scale' = ComputeScale(size)
    /\ elementPositions' = << >>
    /\ elementStyles' = << >>
    /\ UNCHANGED << auth, rev, blurOnRemove, hostVars, previewHtml, loading, error, finalizing,
                    selectedElement, editingText,
                    dragOffset, isDragging, netVars, docVars, pointer, nMoves, nDowns >>

\* handleResize, called by the ResizeObserver: lines 46-56 (revision 1 only)
HandleResize(size) ==
    /\ showEditor
    /\ rev = 1
    /\ size # containerSize
    /\ containerSize' = size
    /\ scale' = ComputeScale(size)
    /\ UNCHANGED << auth, rev, blurOnRemove, hostVars, previewHtml, loading, error, finalizing,
                    selectedElement, elementPositions, elementStyles, editingText,
                    dragOffset, isDragging, netVars, docVars, pointer, nMoves, nDowns >>

\* Style controls of the properties panel.
StyleProps == {"fontSize", "color"}
StyleValue(prop) == IF prop = "fontSize" THEN "24pt" ELSE "#ff0000"

\* updateStyle(prop, val): lines 128-132 and 616-631
UpdateStyle(prop, val) ==
    /\ AtControls
    /\ IsSome(selectedElement)
    /\ LET sel == The(selectedElement)
       IN  /\ elementStyles' = PutStyle(elementStyles, sel.id, prop, val)
           /\ nodes' = IF sel.element[1] = docLoad
                       THEN [nodes EXCEPT ![sel.element[2]].style = (prop :> val) @@ @]
                       ELSE nodes
    /\ UNCHANGED << auth, rev, blurOnRemove, hostVars, previewHtml, loading, error, finalizing,
                    selectedElement, elementPositions, scale, editingText, dragOffset,
                    isDragging, netVars, docLoad, inputs, focus, listeners, timers, userVars >>

\* The Reset Position button of revision 2 (lines 903-918), shown when the
\* selected element has a position override: the entry is deleted and
\* refreshPreview() runs fetchPreview of the render that showed the button.
ResetPosition ==
    /\ AtControls
    /\ rev = 2
    /\ IsSome(selectedElement)
    /\ \E k \in 1..Len(elementPositions) :
          elementPositions[k].element_id = The(selectedElement).id
    /\ Len(requests) < MaxRequests
    /\ elementPositions' =
          SelectSeq(elementPositions, LAMBDA e : e.element_id # The(selectedElement).id)
    /\ loading' = TRUE
    /\ error' = ""
    /\ requests' = Append(requests,
          [status |-> "pending",
           body |-> PreviewBody(formData, SerializePositions(elementPositions),
                                SerializeStyles(elementStyles))])
    /\ UNCHANGED << auth, rev, blurOnRemove, hostVars, previewHtml, finalizing, selectedElement,
                    elementStyles, scale, editingText, dragOffset,
                    isDragging, previewReq, finalizeReqs, docVars, userVars >>

\* ------------------------------------------------- events inside the iframe
\* The loading overlay of revision 1 covers the canvas (line 189); revision 2
\* shows its iframe whenever a preview has been loaded (lines 822-834).
CanvasInteractive ==
    /\ showEditor
    /\ docLoad > 0
    /\ IF rev = 1 THEN ~ loading ELSE TRUE

NoTarget == [kind |-> "none", id |-> 0]
\* What the pointer can be over: an element, the input of an open inline edit,
\* or the page background.
Targets(W) ==
    { [kind |-> "node", id |-> n] : n \in { n \in Nodes : W.nodes[n].exists } }
        \cup { [kind |-> "input", id |-> i] : i \in { i \in 1..Len(W.inputs) : W.inputs[i].inDom } }
        \cup { [kind |-> "body", id |-> 0] }

\* The elements an event at the target passes through, innermost first.
EventPath(W, t) ==
    LET n == CASE t.kind = "node" -> t.id
               [] t.kind = "input" -> W.inputs[t.id].node
               [] OTHER -> 0
    IN  IF n = 0 THEN << >>
        ELSE IF NodeParent(n) = 0 THEN << n >> ELSE << n, NodeParent(n) >>

\* The listeners of one kind along a path, in dispatch order: << n, closure >>
ListenersOn(W, path) ==
    LET RECURSIVE On(_)
        On(k) == IF k > Len(path) THEN << >>
                 ELSE [j \in 1..Len(W.nodes[path[k]].handlers) |->
                          << path[k], W.nodes[path[k]].handlers[j] >>] \o On(k + 1)
    IN  On(1)

\* click and dblclick listeners call e.stopPropagation(): only the innermost
\* element with listeners gets the event.
InnermostListeners(W, path) ==
    LET with == { k \in 1..Len(path) : W.nodes[path[k]].handlers # << >> }
    IN  IF with = {} THEN << >>
        ELSE ListenersOn(W, << path[CHOOSE k \in with : \A o \in with : k <= o] >>)

RECURSIVE RunMouseDown(_, _, _)
RunMouseDown(W, hs, pt) ==
    IF hs = << >> THEN W
    ELSE RunMouseDown(MouseDownHandler(W, Head(hs)[1], Head(hs)[2], pt), Tail(hs), pt)

RECURSIVE RunClick(_, _)
RunClick(W, hs) ==
    IF hs = << >> THEN W ELSE RunClick(ClickHandler(W, Head(hs)[1]), Tail(hs))

RECURSIVE RunDblClick(_, _)
RunDblClick(W, hs) ==
    IF hs = << >> THEN W
    ELSE RunDblClick(DblClickHandler(W, Head(hs)[1], Head(hs)[2]), Tail(hs))

RECURSIVE RunMove(_, _, _)
RunMove(W, ls, pt) ==
    IF ls = << >> THEN W ELSE RunMove(MoveListener(W, Head(ls), pt), Tail(ls), pt)

RECURSIVE RunUp(_, _)
RunUp(W, ls) ==
    IF ls = << >> THEN [W EXCEPT !.listeners = << >>]
    ELSE RunUp(UpListener(W, Head(ls)), Tail(ls))

\* The default action of a mousedown: the focus leaves the focused input
\* unless the button went down on that input.
MouseDownDefault(W, t) ==
    IF t.kind = "input" THEN FocusInput(W, t.id)
    ELSE IF W.focus # 0 THEN FinishEdit([W EXCEPT !.focus = 0], W.focus)
    ELSE W

\* The world after the handlers ran becomes the state.
Becomes(W) ==
    /\ nodes' = W.nodes
    /\ inputs' = W.inputs
    /\ focus' = W.focus
    /\ listeners' = W.listeners
    /\ formData' = W.formData
    /\ selectedElement' = W.selectedElement
    /\ elementPositions' = W.elementPositions
    /\ editingText' = W.editingText
    /\ dragOffset' = W.dragOffset
    /\ isDragging' = W.isDragging

\* What no handler of the document touches.
HandlersLeave ==
    UNCHANGED << auth, rev, blurOnRemove, showEditor, hostLoading, hostError, result,
                 previewHtml, loading, error, finalizing, elementStyles, scale,
                 netVars, docLoad, timers, containerSize >>

\* mousedown in the iframe's document at the target: the mousedown listeners
\* along the path, then the default action.
MouseDown(t, pt) ==
    /\ CanvasInteractive
    /\ ~ pointer.down
    /\ nDowns < MaxDowns
    /\ nDowns' = nDowns + 1
    /\ t \in Targets(World)
    /\ LET hs == ListenersOn(World, EventPath(World, t))
       IN  /\ Len(listeners) + Len(hs) <= MaxListeners
           /\ Becomes(MouseDownDefault(RunMouseDown(World, hs, pt), t))
    /\ pointer' = [down |-> TRUE, target |-> t, at |-> pt,
                   lastClick |-> IF pointer.lastClick = Some(t) THEN Some(t) ELSE None]
    /\ UNCHANGED nMoves
    /\ HandlersLeave

\* mousemove in the iframe's document: every registered move listener runs.
MouseMove(pt) ==
    /\ CanvasInteractive
    /\ listeners # << >>
    /\ nMoves < MaxMoves
    /\ Becomes(RunMove(World, listeners, pt))
    /\ nMoves' = nMoves + 1
    /\ pointer' = [pointer EXCEPT !.at = pt]
    /\ UNCHANGED nDowns
    /\ HandlersLeave

\* The button is released.  Over the document (delivered) the mouseup listeners
\* run, then click, and dblclick when it is the second click of a double click;
\* released outside the iframe the document gets no event.
MouseUp(delivered, dbl) ==
    /\ showEditor
    /\ pointer.down
    /\ LET t == pointer.target
           W1 == IF delivered THEN RunUp(World, listeners) ELSE World
           clicked == delivered /\ t \in Targets(W1)
           W2 == IF clicked THEN RunClick(W1, InnermostListeners(W1, EventPath(W1, t))) ELSE W1
           isDbl == clicked /\ pointer.lastClick = Some(t) /\ dbl
           hs == IF isDbl THEN InnermostListeners(W2, EventPath(W2, t)) ELSE << >>
       IN  /\ dbl => isDbl
           /\ Len(inputs) + Len(hs) <= MaxInputs
           /\ Becomes(RunDblClick(W2, hs))
           /\ pointer' = [down |-> FALSE, target |-> NoTarget, at |-> pointer.at,
                          lastClick |-> IF clicked /\ ~ isDbl THEN Some(t) ELSE None]
    /\ UNCHANGED << nMoves, nDowns >>
    /\ HandlersLeave

\* Escape in the input of revision 2: lines 565-568
CancelEdit(W, i) ==
    LET inp == W.inputs[i]
        W1  == SetInnerHTML(W, inp.node, inp.original)
    IN  [W1 EXCEPT !.editingText = None]

\* A key goes down in the focused input.  Revision 1 registers no keydown
\* listener; revision 2: lines 562-569.
KeyDown(key) ==
    /\ showEditor
    /\ focus # 0
    /\ ~ pointer.down
    /\ LET W == IF key = "Escape" THEN [World EXCEPT !.inputs[focus].escaped = TRUE]
                ELSE World
       IN  IF rev = 1 THEN Becomes(W)
           ELSE IF key = "Enter" THEN Becomes(FinishEdit(W, focus))
           ELSE Becomes(CancelEdit(W, focus))
    /\ UNCHANGED << pointer, nMoves, nDowns >>
    /\ HandlersLeave

\* The user types: the value of the focused input changes.
TypeInput(v) ==
    /\ showEditor
    /\ focus # 0
    /\ ~ pointer.down
    /\ inputs[focus].value # v
    /\ inputs' = [inputs EXCEPT ![focus].value = v]
    /\ UNCHANGED << auth, rev, blurOnRemove, hostVars, editorVars, netVars, docLoad, nodes,
                    focus, listeners, timers, userVars >>

\* The focus leaves the iframe (a click on a control around it, Tab): blur.
FocusOut ==
    /\ showEditor
    /\ focus # 0
    /\ ~ pointer.down
    /\ Becomes(FinishEdit([World EXCEPT !.focus = 0], focus))
    /\ UNCHANGED << pointer, nMoves, nDowns >>
    /\ HandlersLeave

\* ------------------------------------------------------------------ useAuth
\* How usersAPI.getMe() can end: the profile, 401, 403, an aborted fetch,
\* any other failure.
GetMeOutcomes == {"ok", "401", "403", "abort", "error"}

\* What the components around the editor leave alone.
AuthLeaves ==
    UNCHANGED << rev, blurOnRemove, hostVars, editorVars, netVars, docVars, userVars >>

\* fetchUserProfile(0), lines 21-26 and 69-72: a pending fetch is reused,
\* otherwise fetchAction() starts (getMe is called) and its promise is kept
\* in pendingFetch.current.
FetchUserProfile(a) ==
    IF a.pendingFetch # 0
    THEN [a EXCEPT !.fetches[a.pendingFetch].callers = @ + 1]
    ELSE [a EXCEPT !.fetches = Append(@, [phase |-> "getMe", retryCount |-> 0,
                                          issued |-> 1, callers |-> 1]),
                   !.pendingFetch = Len(a.fetches) + 1]

\* A fetch settles with the profile or null: the finally block of the
\* fetchAction of retryCount 0 (line 65), then the callers that awaited it
\* (lines 90-92, 122-127, 151).
Settle(a, f, profile) ==
    [a EXCEPT !.fetches[f].phase = "done",
              !.pendingFetch = IF a.fetches[f].retryCount = 0 THEN 0 ELSE @,
              !.isAuthenticated = IF profile THEN @ ELSE FALSE,
              !.loading = FALSE]

\* login (149-153), checkAuth with a session (88-90), the onAuthStateChange
\* callback with a session (118-122): up to the await of fetchUserProfile().
ProfileWanted ==
    /\ auth.nCalls < MaxProfileCalls
    /\ auth' = [FetchUserProfile([auth EXCEPT !.isAuthenticated = TRUE])
                   EXCEPT !.nCalls = @ + 1]
    /\ AuthLeaves

\* The onAuthStateChange callback without a session: lines 113-119, 128-133
SignedOut ==
    /\ auth.isAuthenticated \/ auth.user \/ auth.loading
    /\ auth' = [auth EXCEPT !.isAuthenticated = FALSE, !.user = FALSE, !.loading = FALSE]
    /\ AuthLeaves

\* fetchAction after its await of usersAPI.getMe(): lines 31-63
GetMeAnswers(f, outcome) ==
    /\ f \in 1..Len(auth.fetches)
    /\ auth.fetches[f].phase = "getMe"
    /\ auth' =
          CASE outcome = "ok" -> Settle([auth EXCEPT !.user = TRUE], f, TRUE)
            [] outcome \in {"abort", "error"} -> Settle(auth, f, FALSE)
            [] outcome = "401" /\ auth.fetches[f].retryCount = 0 ->
                  [auth EXCEPT !.fetches[f].phase = "delay"]
            [] OTHER -> [auth EXCEPT !.fetches[f].phase = "clearing"]
    /\ AuthLeaves

\* The 800 ms delay is over (line 56): return fetchUserProfile(1) starts the
\* fetchAction of the retry (getMe is called again, lines 57, 72), and the
\* finally block of the first fetchAction runs (line 65).
RetryProfile(f) ==
    /\ f \in 1..Len(auth.fetches)
    /\ auth.fetches[f].phase = "delay"
    /\ auth' = [auth EXCEPT !.fetches[f].phase = "getMe",
                            !.fetches[f].retryCount = 1,
                            !.fetches[f].issued = @ + 1,
                            !.pendingFetch = 0]
    /\ AuthLeaves

\* clearSession after its await of authAPI.logout() (lines 17-18), then the
\* rest of fetchAction (lines 61-65).
SessionCleared(f) ==
    /\ f \in 1..Len(auth.fetches)
    /\ auth.fetches[f].phase = "clearing"
    /\ auth' = Settle([auth EXCEPT !.isAuthenticated = FALSE, !.user = FALSE], f, FALSE)
    /\ AuthLeaves

\* ------------------------------------------------------------------- Next
Next ==
    \/ FetchPreview
    \/ \E i \in 1..Len(requests) : PreviewResolve(i)
    \/ \E i \in 1..Len(requests), err \in RequestErrors : PreviewReject(i, err)
    \/ SetupEditorEvents
    \/ HandleFinalize
    \/ \E k \in 1..Len(finalizeReqs) : FinalizeResolve(k)
    \/ \E k \in 1..Len(finalizeReqs), err \in RequestErrors : FinalizeReject(k, err)
    \/ Back
    \/ DismissError
    \/ \E f \in Fields, v \in QuickValues : QuickData(f, v)
    \/ \E size \in ContainerSizes : HandleResize(size)
    \/ \E prop \in StyleProps : UpdateStyle(prop, StyleValue(prop))
    \/ ResetPosition
    \/ \E t \in Targets(World), pt \in Points : MouseDown(t, pt)
    \/ \E pt \in Points : MouseMove(pt)
    \/ \E delivered \in BOOLEAN, dbl \in BOOLEAN : MouseUp(delivered, dbl)
    \/ \E key \in {"Enter", "Escape"} : KeyDown(key)
    \/ \E v \in Values : TypeInput(v)
    \/ FocusOut
    \/ ProfileWanted
    \/ SignedOut
    \/ \E f \in 1..Len(auth.fetches), outcome \in GetMeOutcomes : GetMeAnswers(f, outcome)
    \/ \E f \in 1..Len(auth.fetches) : RetryProfile(f)
    \/ \E f \in 1..Len(auth.fetches) : SessionCleared(f)

Spec == Init /\ [][Next]_vars

\* ------------------------------------------------- sessions that are checked
\* Where the button goes down and where the pointer is moved to.
PressAt == [x |-> 100, y |-> 50]
MoveTo  == [x |-> 200, y |-> 150]

\* The editor mounted in a window that shows the certificate at full size, in
\* a browser that fires no blur for an input removed from the document.
InitSession ==
    /\ Init
    /\ blurOnRemove = FALSE
    /\ containerSize = [w |-> 1400, h |-> 1000]

\* Requests, finalization and the controls, with drags of the name element.
NextSession ==
    \/ FetchPreview
    \/ \E i \in 1..Len(requests) : PreviewResolve(i)
    \/ \E i \in 1..Len(requests), err \in RequestErrors : PreviewReject(i, err)
    \/ SetupEditorEvents
    \/ HandleFinalize
    \/ \E k \in 1..Len(finalizeReqs) : FinalizeResolve(k)
    \/ \E k \in 1..Len(finalizeReqs), err \in RequestErrors : FinalizeReject(k, err)
    \/ Back
    \/ DismissError
    \/ \E f \in {"student_name"}, v \in QuickValues : QuickData(f, v)
    \/ \E prop \in {"color"} : UpdateStyle(prop, StyleValue(prop))
    \/ ResetPosition
    \/ \E t \in {[kind |-> "node", id |-> 1]}, pt \in {PressAt} :
          nDowns < MaxDrags /\ MouseDown(t, pt)
    \/ \E pt \in {MoveTo} : MouseMove(pt)
    \/ \E delivered \in {TRUE} : MouseUp(delivered, FALSE)

SpecSession == InitSession /\ [][NextSession]_vars

\* Pointer and keyboard in the document of the first preview.
NextEdit ==
    \/ \E i \in 1..Len(requests) : PreviewResolve(i)
    \/ SetupEditorEvents
    \/ \E t \in Targets(World), pt \in {PressAt} : MouseDown(t, pt)
    \/ \E pt \in {MoveTo} : MouseMove(pt)
    \/ \E delivered \in BOOLEAN, dbl \in BOOLEAN : MouseUp(delivered, dbl)
    \/ \E key \in {"Enter", "Escape"} : KeyDown(key)
    \/ \E v \in Values : TypeInput(v)
    \/ FocusOut

SpecEdit == Init /\ [][NextEdit]_vars

\* The editor in a browser that fires no blur for a removed input (no inline
\* edit is opened in the sessions that start here).
InitResize == Init /\ blurOnRemove = FALSE

\* Drags and style changes in the first preview while the window is resized.
NextResize ==
    \/ \E i \in 1..Len(requests) : PreviewResolve(i)
    \/ SetupEditorEvents
    \/ \E size \in ContainerSizes : HandleResize(size)
    \/ \E prop \in {"color"} : UpdateStyle(prop, StyleValue(prop))
    \/ \E t \in Targets(World), pt \in {PressAt} : MouseDown(t, pt)
    \/ \E pt \in {MoveTo} : MouseMove(pt)
    \/ \E delivered \in {TRUE} : MouseUp(delivered, FALSE)

SpecResize == InitResize /\ [][NextResize]_vars

\* Sizes the ResizeObserver reports while the window is resized at will: a
\* collapsed container, small ones, and one larger than the canvas.
ResizeSizes ==
    ContainerSizes \cup { [w |-> 0, h |-> 0], [w |-> 100, h |-> 100],
                          [w |-> 600, h |-> 400], [w |-> 2000, h |-> 1500] }

\* Clicks and style changes in the first preview while the window is resized.
NextScale ==
    \/ \E i \in 1..Len(requests) : PreviewResolve(i)
    \/ SetupEditorEvents
    \/ \E size \in ResizeSizes : HandleResize(size)
    \/ \E prop \in {"color"} : UpdateStyle(prop, StyleValue(prop))
    \/ \E t \in Targets(World), pt \in {PressAt} : MouseDown(t, pt)
    \/ \E delivered \in {TRUE} : MouseUp(delivered, FALSE)

SpecScale == InitResize /\ [][NextScale]_vars

\* Selection, styling, drags and finalization in the first preview.
NextCanvas ==
    \/ \E i \in 1..Len(requests) : PreviewResolve(i)
    \/ SetupEditorEvents
    \/ \E prop \in StyleProps : UpdateStyle(prop, StyleValue(prop))
    \/ \E t \in Targets(World), pt \in {PressAt} :
          nDowns < MaxClicks /\ MouseDown(t, pt)
    \/ \E pt \in {MoveTo} : MouseMove(pt)
    \/ \E delivered \in {TRUE} : MouseUp(delivered, FALSE)
    \/ \E f \in {"student_name"}, v \in QuickValues : QuickData(f, v)
    \/ HandleFinalize
    \/ \E k \in 1..Len(finalizeReqs), err \in RequestErrors : FinalizeReject(k, err)

SpecCanvas == InitSession /\ [][NextCanvas]_vars

\* The application with the editor open and untouched, a given browser and
\* form: only the session of the user changes.
InitAuth ==
    /\ InitSession
    /\ rev = 1
    /\ formData = [student_name |-> "John Doe", course_name |-> "AWS"]

\* Sign-in events and profile fetches of useAuth.
NextAuth ==
    \/ ProfileWanted
    \/ SignedOut
    \/ \E f \in 1..Len(auth.fetches), outcome \in GetMeOutcomes : GetMeAnswers(f, outcome)
    \/ \E f \in 1..Len(auth.fetches) : RetryProfile(f)
    \/ \E f \in 1..Len(auth.fetches) : SessionCleared(f)

SpecAuth == InitAuth /\ [][NextAuth]_vars

\* ------------------------------------------------------------ properties
\* A preview request completes in this step.
PreviewCompletes(i) ==
    /\ i \in 1..Len(requests)
    /\ requests[i].status = "pending"
    /\ requests'[i].status # "pending"

\* A finalize request fails in this step.
FinalizeFails(k) ==
    /\ k \in 1..Len(finalizeReqs)
    /\ finalizeReqs[k].status = "pending"
    /\ finalizeReqs'[k].status = "failed"

\* C1: whenever the editor replaces the preview HTML it shows, the new HTML is
\* the response to the most recently issued preview request, whatever the order
\* in which the requests complete.
C1_LastRequestWins ==
    [][(showEditor' /\ previewHtml' # previewHtml)
          => previewHtml' = Some(RenderHtml(requests[Len(requests)].body))]_vars

\* C2: the step in which a finalize request fails, with the editor open, leaves
\* the editor out of Finalizing and with a non-empty error message in it.
C2_FinalizeFailureSurfaces ==
    [][\A k \in 1..Len(finalizeReqs) :
          (showEditor /\ FinalizeFails(k)) => (~ finalizing' /\ error' # "")]_vars

\* C3 as stated: when a finalize request fails the editor stays open and the
\* position overrides, style overrides and certificate data are what the
\* request carried, that is what they were when finalize was invoked.
C3_AsInvoked ==
    [][\A k \in 1..Len(finalizeReqs) :
          (showEditor /\ FinalizeFails(k))
             => /\ showEditor'
                /\ formData' = finalizeReqs[k].body.certificate_data
                /\ SerializePositions(elementPositions') = finalizeReqs[k].body.element_positions
                /\ SerializeStyles(elementStyles') = finalizeReqs[k].body.element_styles]_vars

\* C3: the step in which a finalize request fails leaves the editor open and
\* the position overrides, the style overrides and the certificate data as
\* they were just before it (edits made while the request was pending are
\* kept); the editor closes only in a step in which a finalize request
\* succeeds, or in a step of Back, which touches no request.
C3_FailureKeepsOverrides ==
    [][/\ \A k \in 1..Len(finalizeReqs) :
             (showEditor /\ FinalizeFails(k))
                => /\ showEditor'
                   /\ formData' = formData
                   /\ elementPositions' = elementPositions
                   /\ elementStyles' = elementStyles
       /\ (showEditor /\ ~ showEditor')
             => \/ \E k \in 1..Len(finalizeReqs) :
                      finalizeReqs[k].status = "pending" /\ finalizeReqs'[k].status = "ok"
                \/ (AtControls /\ finalizeReqs' = finalizeReqs /\ requests' = requests
                       /\ formData' = formData)]_vars

\* A finalize request failed while the editor, still open, holds a position
\* override, a style override and certificate data.
C3_Witness ==
    /\ showEditor
    /\ \E k \in 1..Len(finalizeReqs) :
          /\ finalizeReqs[k].status = "failed"
          /\ finalizeReqs[k].body.element_positions # << >>
          /\ finalizeReqs[k].body.element_styles # << >>
    /\ elementPositions # << >>
    /\ elementStyles # << >>

\* C4: the step in which a preview request fails or is aborted leaves the
\* preview HTML, the document shown, the position overrides and the style
\* overrides as they were.
C4_PreviewFailureKeeps ==
    [][\A i \in 1..Len(requests) :
          (showEditor /\ PreviewCompletes(i) /\ requests'[i].status # "ok")
             => /\ previewHtml' = previewHtml
                /\ nodes' = nodes
                /\ elementPositions' = elementPositions
                /\ elementStyles' = elementStyles]_vars

\* A preview request failed after an earlier one had been rendered and the
\* user had made a position override and a style override.
C4_Witness ==
    /\ showEditor
    /\ Len(requests) >= 2
    /\ requests[1].status = "ok"
    /\ requests[2].status \in {"failed", "aborted"}
    /\ previewHtml = Some(RenderHtml(requests[1].body))
    /\ SerializePositions(elementPositions) = requests[2].body.element_positions
    /\ SerializeStyles(elementStyles) = requests[2].body.element_styles
    /\ elementPositions # << >>
    /\ elementStyles # << >>

\* The step clears the error message.
ErrorCleared == showEditor' /\ error # "" /\ error' = ""

\* What may clear the message: a new preview request, a new finalize, or the
\* dismiss button (a step at the controls that changes nothing else).
ClearedByUser ==
    \/ Len(requests') > Len(requests)
    \/ Len(finalizeReqs') > Len(finalizeReqs)
    \/ (AtControls /\ UNCHANGED << hostVars, previewHtml, loading, finalizing, netVars,
                                    docVars, elementPositions, elementStyles >>)

\* C5 as stated: every preview request that fails or is aborted leaves a
\* non-empty error message, and a message goes away only by a dismissal, a new
\* preview request or a new finalize.
C5_EveryFailureSurfaces ==
    [][/\ \A i \in 1..Len(requests) :
             (showEditor /\ PreviewCompletes(i) /\ requests'[i].status # "ok")
                => error' # ""
       /\ ErrorCleared => ClearedByUser]_vars

\* C5: every preview request that fails for another reason than an abort
\* leaves a non-empty error message, and a message goes away only by a
\* dismissal, a new preview request or a new finalize.
C5_FailureSurfaces ==
    [][/\ \A i \in 1..Len(requests) :
             (showEditor /\ PreviewCompletes(i) /\ requests'[i].status = "failed")
                => error' # ""
       /\ ErrorCleared => ClearedByUser]_vars

\* A preview request failed and its message is shown.
C5_Witness ==
    /\ showEditor
    /\ \E i \in 1..Len(requests) : requests[i].status = "failed"
    /\ error = "Request failed"
    /\ ~ loading

\* C6: the step that commits the inline edit of a field-bound element with
\* the input's value v (by blur or by Enter) leaves v as the rendered text of
\* the element, v as the certificate data of its field, and the host's
\* onDataChange called exactly once for that commit.
C6_CommitWritesOnce ==
    [][\A i \in 1..Len(inputs) :
          (/\ i <= Len(inputs')
           /\ inputs[i].field # ""
           /\ inputs[i].commits = 0
           /\ inputs'[i].commits > 0)
             => /\ inputs'[i].calls = 1
                /\ formData'[inputs[i].field] = inputs[i].value
                /\ TextContent(nodes', inputs[i].node) = inputs[i].value]_vars

\* C7: an inline edit in which Escape was pressed is closed, the element has
\* its original content again, and no commit of that edit has run or ever
\* runs: onDataChange is not called for it, at Escape or by a later blur.
C7_EscapeCancels ==
    \A i \in 1..Len(inputs) :
        inputs[i].escaped
           => /\ ~ inputs[i].inDom
              /\ inputs[i].commits = 0
              /\ inputs[i].calls = 0
              /\ nodes[inputs[i].node].text = inputs[i].original.text

\* C8: at most one inline edit is open, and no inline edit captured the text
\* of its element while an earlier edit was still open (the open edit is
\* committed first).
C8_OneEditSession ==
    /\ Cardinality({ i \in 1..Len(inputs) : inputs[i].inDom }) <= 1
    /\ \A i \in 1..Len(inputs) : ~ inputs[i].overOpen

\* C9: no drag session was started while an inline edit was open: a
\* mousedown commits the open edit before the drag's listeners are registered.
C9_CommitBeforeDrag ==
    \A k \in 1..Len(listeners) : ~ listeners[k].editOpen

\* C10: the listeners of at most one drag session are registered on the
\* document.
C10_OneDragSession == Len(listeners) <= 1

\* The drag session the current press started on element n: the listeners
\* registered last for n.
SessionOf(n) ==
    LET ks == { k \in 1..Len(listeners) : listeners[k].node = n }
    IN  listeners[CHOOSE k \in ks : \A o \in ks : o <= k]

\* (pointerPos - canvasOrigin) / scale - capturedOffset
DragValue(l, pt) ==
    [x |-> RSub(RDiv(RSub(RInt(pt.x), IframeOrigin.x), scale), l.captured.x),
     y |-> RSub(RDiv(RSub(RInt(pt.y), IframeOrigin.y), scale), l.captured.y)]

\* The entries of two override lists for ids other than id are the same.
SameButFor(old, new, id) ==
    /\ \A k \in 1..Len(old) :
          old[k].element_id # id => (k <= Len(new) /\ new[k] = old[k])
    /\ \A k \in 1..Len(new) :
          new[k].element_id # id => (k <= Len(old) /\ new[k] = old[k])

\* A mousemove is delivered while the button is held on tagged element n.
MoveInDragOf(n) ==
    /\ pointer.down /\ pointer'.down
    /\ nMoves' = nMoves + 1
    /\ pointer.target = [kind |-> "node", id |-> n]
    /\ nodes[n].tag # ""
    /\ \E k \in 1..Len(listeners) : listeners[k].node = n

\* C11: every mousemove of the drag session on element N leaves
\* PositionOverride[N] = (pointerPos - canvasOrigin)/scale - capturedOffset of
\* that event, the element placed at the same value, and the override of no
\* other element id changed.
C11_DragFollowsPointer ==
    [][\A n \in Nodes :
          MoveInDragOf(n) =>
             LET id == nodes[n].tag
                 v  == DragValue(SessionOf(n), pointer'.at)
             IN  /\ \E k \in 1..Len(elementPositions') :
                       elementPositions'[k] = [element_id |-> id, x |-> v.x, y |-> v.y]
                 /\ Cardinality({ k \in 1..Len(elementPositions') :
                                    elementPositions'[k].element_id = id }) = 1
                 /\ nodes'[n].pos = Some(v)
                 /\ SameButFor(elementPositions, elementPositions', id)]_vars

\* C12: a step in which the container is resized changes no stored position
\* override and no stored style override.
C12_ResizeKeepsOverrides ==
    [][containerSize' # containerSize
          => (elementPositions' = elementPositions /\ elementStyles' = elementStyles)]_vars

\* The container was resized after the document was loaded (the scale is not
\* the one of the load any more) and a position override and a style
\* override are stored.
C12_Witness ==
    /\ elementPositions # << >>
    /\ elementStyles # << >>
    /\ \E n \in Nodes :
          /\ nodes[n].handlers # << >>
          /\ nodes[n].handlers[1].scale = Rat(1, 2)
    /\ scale = RInt(1)

\* C13: the divisor of every pointer coordinate a drag consumes is the scale
\* of the moment: the listeners a mousedown registers divide by the current
\* scale, and so does every listener that handles a mousemove.
C13_CurrentScale ==
    [][/\ Len(listeners') > Len(listeners)
             => \A k \in (Len(listeners) + 1)..Len(listeners') : listeners'[k].scale = scale
       /\ nMoves' = nMoves + 1
             => \A k \in 1..Len(listeners) : listeners[k].scale = scale]_vars

\* clamp(min(w/1123, h/794), 0.1, 1.0), by integer comparisons.
ClampedRatio(w, h) ==
    LET byWidth == w * certHeight <= h * certWidth
        num == IF byWidth THEN w ELSE h
        den == IF byWidth THEN certWidth ELSE certHeight
    IN  IF 10 * num < den THEN [n |-> 1, d |-> 10]
        ELSE IF num > den THEN [n |-> 1, d |-> 1]
        ELSE [n |-> num, d |-> den]

\* Two fractions are the same number.
SameNumber(a, b) == a.n * b.d = b.n * a.d

\* C14 as stated: after every resize the scale is
\* clamp(min(W/1123, H/794), 0.1, 1.0) for the observed container size W x H.
C14_ScaleOfContainer ==
    [][containerSize' # containerSize
          => SameNumber(scale', ClampedRatio(containerSize'.w, containerSize'.h))]_vars

\* C14: after every resize the scale is
\* clamp(min((W - 32)/1123, (H - 32)/794), 0.1, 1.0) for the observed
\* container size W x H; 600 x 400 gives min(568/1123, 368/794) = 368/794.
C14_ScaleOfAvailable ==
    [][containerSize' # containerSize
          => SameNumber(scale', ClampedRatio(containerSize'.w - 32, containerSize'.h - 32))]_vars

\* The container was resized to 600 x 400 and the scale is 368/794.
C14_Witness ==
    /\ rev = 1
    /\ containerSize = [w |-> 600, h |-> 400]
    /\ SameNumber(scale, [n |-> 368, d |-> 794])

\* C15: in every state 0.1 <= scale <= 1.0.
C15_ScaleInRange ==
    /\ 10 * scale.n >= scale.d
    /\ scale.n <= scale.d
    /\ scale.d > 0

\* The container collapsed to 0 x 0 and the scale is the lower limit.
C15_Witness ==
    /\ rev = 1
    /\ containerSize = [w |-> 0, h |-> 0]
    /\ scale = [n |-> 1, d |-> 10]

\* The elements of the document that carry the highlight.
Highlighted(ns) == { m \in Nodes : ns[m].exists /\ ns[m].selected }

\* The button is released over target t and the document gets a click that
\* is not the second of a double click.
IsClick(t) ==
    /\ pointer.down /\ ~ pointer'.down
    /\ pointer.target = t
    /\ pointer'.lastClick = Some(t)

\* The target lies in no element that has listeners.
OutsideEditable(t) ==
    \A k \in 1..Len(EventPath(World, t)) : nodes[EventPath(World, t)[k]].handlers = << >>

\* C16: a click on an editable element leaves that element as the only
\* highlighted one and SelectionState holding its id, its data field and its
\* handle, whatever was selected before (the same element included).
C16_ClickSelects ==
    [][\A n \in Nodes :
          (IsClick([kind |-> "node", id |-> n]) /\ nodes[n].handlers # << >>)
             => /\ Highlighted(nodes') = {n}
                /\ selectedElement' = Some([id |-> nodes[n].tag, field |-> nodes[n].field,
                                             element |-> << docLoad, n >>])]_vars

\* Element a was selected earlier (it got a style override) and now element
\* b is the selection and the only highlighted element.
C16_Witness ==
    \E a, b \in Nodes :
        /\ a # b
        /\ nodes[a].tag # ""
        /\ \E k \in 1..Len(elementStyles) : elementStyles[k].element_id = nodes[a].tag
        /\ Highlighted(nodes) = {b}
        /\ selectedElement = Some([id |-> nodes[b].tag, field |-> nodes[b].field,
                                    element |-> << docLoad, b >>])

\* C17: SelectionState never holds a handle to an element of a document that
\* has been replaced: a load of the preview document clears it.
C17_LoadClearsSelection ==
    IsSome(selectedElement) => The(selectedElement).element[1] = docLoad

\* C18: a click in the document that hits no editable element leaves nothing
\* selected and nothing highlighted.
C18_ClickOutsideClears ==
    [][\A t \in Targets(World) :
          (IsClick(t) /\ OutsideEditable(t))
             => (selectedElement' = None /\ Highlighted(nodes') = {})]_vars

\* The style override stored for an element id (none: no property).
StyleOfId(ss, id) ==
    IF \E k \in 1..Len(ss) : ss[k].element_id = id
    THEN ss[CHOOSE k \in 1..Len(ss) : ss[k].element_id = id].style
    ELSE NoStyle

\* C19: a step that changes the style overrides is an updateStyle with a
\* selection s: one property of s.id gets its value, the other properties of
\* s.id and the overrides of the other ids stay, and so do the position
\* overrides and the certificate data.
C19_UpdateStyleFrame ==
    [][(showEditor' /\ elementStyles' # elementStyles)
          => /\ IsSome(selectedElement)
             /\ LET id  == The(selectedElement).id
                     old == StyleOfId(elementStyles, id)
                     new == StyleOfId(elementStyles', id)
                 IN  /\ \E prop \in StyleProps :
                           /\ DOMAIN new = DOMAIN old \cup {prop}
                           /\ new[prop] = StyleValue(prop)
                           /\ \A q \in DOMAIN old \ {prop} : new[q] = old[q]
                     /\ Cardinality({ k \in 1..Len(elementStyles') :
                                        elementStyles'[k].element_id = id }) = 1
                     /\ SameButFor(elementStyles, elementStyles', id)
             /\ elementPositions' = elementPositions
             /\ formData' = formData]_vars

\* One element has both style properties overridden, another element has a
\* style override too, and a position override is stored.
C19_Witness ==
    /\ Len(elementStyles) >= 2
    /\ \E k \in 1..Len(elementStyles) : DOMAIN elementStyles[k].style = StyleProps
    /\ elementPositions # << >>

\* C20: the body of a finalize request carries the certificate data of the
\* moment, exactly one entry {element_id, x, y} with the current value for
\* every id that has a position override and no other entry, and exactly one
\* entry {element_id, ...style} for every id that has a style override and
\* no other entry.
C20_FinalizeSerializesAll ==
    [][Len(finalizeReqs') = Len(finalizeReqs) + 1
          => LET body == finalizeReqs'[Len(finalizeReqs')].body
                 ps == body.element_positions
                 ss == body.element_styles
             IN  /\ body.certificate_data = formData
                 /\ \A k \in 1..Len(elementPositions) :
                       Cardinality({ j \in 1..Len(ps) :
                           ps[j] = [element_id |-> elementPositions[k].element_id,
                                    x |-> elementPositions[k].x,
                                    y |-> elementPositions[k].y] }) = 1
                 /\ Len(ps) = Len(elementPositions)
                 /\ \A k \in 1..Len(elementStyles) :
                       Cardinality({ j \in 1..Len(ss) :
                           /\ ss[j].element_id = elementStyles[k].element_id
                           /\ DOMAIN ss[j] = DOMAIN elementStyles[k].style \cup {"element_id"}
                           /\ \A q \in DOMAIN elementStyles[k].style :
                                 ss[j][q] = elementStyles[k].style[q] }) = 1
                 /\ Len(ss) = Len(elementStyles)]_vars

\* A finalize request was sent with two position entries, a style entry of
\* two properties and certificate data edited in the editor.
C20_Witness ==
    \E k \in 1..Len(finalizeReqs) :
        LET body == finalizeReqs[k].body
        IN  /\ Len(body.element_positions) >= 2
            /\ \E j \in 1..Len(body.element_styles) :
                  DOMAIN body.element_styles[j] = StyleProps \cup {"element_id"}
            /\ body.certificate_data.student_name = "Jane Roe"

C22_OneFinalizeInFlight ==
    [][Len(finalizeReqs') # Len(finalizeReqs)
          => /\ Len(finalizeReqs') = Len(finalizeReqs) + 1
             /\ AtControls
             /\ \A k \in 1..Len(finalizeReqs) : finalizeReqs[k].status # "pending"]_vars

\* The entry stored for an element id in a list of overrides (None: no entry).
EntryOf(es, id) ==
    IF \E k \in 1..Len(es) : es[k].element_id = id
    THEN Some(es[CHOOSE k \in 1..Len(es) : es[k].element_id = id])
    ELSE None

\* The element ids that have an entry in a list of overrides.
IdsOf(es) == { es[k].element_id : k \in 1..Len(es) }

\* C23: while the editor stays open no position or style override is
\* removed; a position entry changes only in a pointer move of a drag of that
\* element, a style entry only in an updateStyle on the selected element.
C23_OverridesPersist ==
    [][(showEditor /\ showEditor')
          => /\ IdsOf(elementPositions) \subseteq IdsOf(elementPositions')
             /\ IdsOf(elementStyles) \subseteq IdsOf(elementStyles')
             /\ \A id \in IdsOf(elementPositions') :
                   EntryOf(elementPositions', id) # EntryOf(elementPositions, id)
                      => /\ nMoves' = nMoves + 1
                         /\ \E k \in 1..Len(listeners) : nodes[listeners[k].node].tag = id
             /\ \A id \in IdsOf(elementStyles') :
                   EntryOf(elementStyles', id) # EntryOf(elementStyles, id)
                      => /\ AtControls
                         /\ selectedElement = selectedElement'
                         /\ IsSome(selectedElement)
                         /\ The(selectedElement).id = id]_vars

\* C24: a preview request is issued only by Refresh / Apply Changes, a step
\* at the controls that changes no certificate data, no override and no
\* selection, and the request carries the certificate data and the overrides
\* of that moment.
C24_PreviewOnlyOnRefresh ==
    [][Len(requests') # Len(requests)
          => /\ Len(requests') = Len(requests) + 1
             /\ AtControls
             /\ formData' = formData
             /\ elementPositions' = elementPositions
             /\ elementStyles' = elementStyles
             /\ selectedElement' = selectedElement
             /\ docLoad' = docLoad /\ nodes' = nodes /\ inputs' = inputs
             /\ requests'[Len(requests')].body =
                   PreviewBody(formData', SerializePositions(elementPositions'),
                               SerializeStyles(elementStyles'))]_vars

\* C25: a tagging pass that fires is the only one pending, the pass of the
\* load whose content is in the iframe, and no element ever carries more than
\* one set of click / double-click / mousedown listeners.
C25_OnePassPerLoad ==
    [][/\ Len(timers') < Len(timers) => Len(timers) = 1
       /\ \A n \in Nodes : Len(nodes'[n].handlers) <= 1]_vars

\* C26: a tagging pass marks an element editable exactly when the element is
\* not tagged yet, has at most 3 children, and has non-empty text of its own
\* or is childless with non-empty text, whatever its rendered size.
C26_TaggedIffTextual ==
    [][Len(timers') < Len(timers)
          => \A n \in Nodes :
                nodes[n].exists
                   => ((nodes'[n].tag # "" /\ nodes[n].tag = "")
                          <=> /\ nodes[n].tag = ""
                              /\ ChildCount(nodes, n) <= 3
                              /\ \/ NonBlank(nodes[n].text)
                                 \/ (ChildCount(nodes, n) = 0
                                        /\ NonBlank(TextContent(nodes, n))))]_vars

\* The identifiers the tagging loop gives to anonymous elements.
AnonymousIds == { ElementId(k) : k \in Nodes }

\* The tags the tagging pass of a load gives to the document of a preview
\* request's answer.
TagsOfLoad(i) == TagElements(rev, BuildDoc(rev, RenderHtml(requests[i].body)))

\* C27: once the tagging pass of the loaded document has run, its anonymous
\* editable elements carry element-1, element-2, ... consecutively in
\* document order, and every element carries the identifier it had in every
\* other load applied in this session.
C27_IdsStableAcrossLoads ==
    (showEditor /\ docLoad > 0 /\ timers = << >>)
       => /\ \A n \in Nodes :
                nodes[n].tag \in AnonymousIds
                   => nodes[n].tag =
                         ElementId(1 + Cardinality({ m \in 1..(n - 1) :
                                                      nodes[m].tag \in AnonymousIds }))
          /\ \A i \in 1..Len(requests) :
                requests[i].status = "ok"
                   => \A n \in Nodes : TagsOfLoad(i)[n].tag = nodes[n].tag

\* The inline input i commits to the host form in this step, and no other
\* input does.
CommitsAlone(i) ==
    /\ i \in 1..Len(inputs) /\ i \in 1..Len(inputs')
    /\ inputs'[i].calls = inputs[i].calls + 1
    /\ \A j \in 1..Len(inputs) : (j # i /\ j \in 1..Len(inputs')) => inputs'[j].calls = inputs[j].calls

\* C28: the commit of an inline edit on an element bound to field f writes
\* the input's value to key f of the certificate data and leaves every other
\* key with the value it had just before the commit.
C28_CommitMerges ==
    [][\A i \in 1..Len(inputs) :
          CommitsAlone(i)
             => /\ formData'[inputs[i].field] = inputs[i].value
                /\ \A g \in Fields \ {inputs[i].field} : formData'[g] = formData[g]]_vars

\* C29: while the editor is open the loading flag is set whenever a preview
\* request is in flight.
C29_LoadingWhilePending ==
    (showEditor /\ \E i \in 1..Len(requests) : requests[i].status = "pending") => loading

\* The getMe requests that are in flight.
GetMeInFlight(a) == { f \in 1..Len(a.fetches) : a.fetches[f].phase = "getMe" }

\* C30: at most one getMe request is in flight at any time, a call of
\* fetchUserProfile made while a fetch or its retry is unfinished issues no
\* request, and one top-level call issues at most two requests.
C30_NoOverlappingProfileFetch ==
    [][/\ Cardinality(GetMeInFlight(auth')) <= 1
       /\ (\E f \in 1..Len(auth.fetches) : auth.fetches[f].phase # "done")
             => Len(auth'.fetches) = Len(auth.fetches)
       /\ \A f \in 1..Len(auth'.fetches) : auth'.fetches[f].issued <= 2]_vars

====
